---- MODULE Spec2Model ----
(***************************************************************************)
(* Model of covid-dash: the paginated fetch-and-merge routine              *)
(* get_paginated_dataset (src/covid_api.py, duplicated in src/app.py) and  *)
(* the cache refresh / figure callbacks of the dashboard (src/app.py).     *)
(*                                                                         *)
(* Text is a sequence of one-character strings; "\n" is the newline.       *)
(* A fetch is identified by an id; all fetch variables are functions over  *)
(* the ids of the fetches that exist, so that the locals of one            *)
(* invocation are kept apart from those of another.                        *)
(***************************************************************************)
EXTENDS Integers, Sequences, FiniteSets, TLC

VARIABLES as_csv, page_number, data, response, pc, outcome,
          requests, outstanding, accepted,
          cache, rpc, rcases, rdeaths, seen,
          served,
          now, expires, got_none,
          rows, total, total_rolling, figpc

fetchVars == <<as_csv, page_number, data, response, pc, outcome,
               requests, outstanding, accepted>>
cacheVars == <<cache, rpc, rcases, rdeaths, seen>>
\* the clock and the expiry times of the cache entries
clockVars == <<now, expires, got_none>>
\* the series of one figure callback
figVars == <<rows, total, total_rolling, figpc>>
vars == <<as_csv, page_number, data, response, pc, outcome,
          requests, outstanding, accepted,
          cache, rpc, rcases, rdeaths, seen,
          served,
          now, expires, got_none,
          rows, total, total_rolling, figpc>>

----------------------------------------------------------------------------
(* Bounds of the model *)

MaxPage == 4
MaxRefresh == 2
MaxTicks == 6
MaxPairPage == 2
MaxDays == 8

----------------------------------------------------------------------------
(* Text: str.split, str.join and str.strip as Python computes them *)

NL == "\n"
Whitespace == {" ", "\n"}

RECURSIVE SplitFrom(_, _, _)
SplitFrom(s, sep, cur) ==
    IF s = <<>> THEN <<cur>>
    ELSE IF Head(s) = sep
         THEN <<cur>> \o SplitFrom(Tail(s), sep, <<>>)
         ELSE SplitFrom(Tail(s), sep, Append(cur, Head(s)))

Split(s, sep) == SplitFrom(s, sep, <<>>)

RECURSIVE Join(_, _)
Join(sep, xs) ==
    IF xs = <<>> THEN <<>>
    ELSE IF Len(xs) = 1 THEN xs[1]
         ELSE xs[1] \o <<sep>> \o Join(sep, Tail(xs))

RECURSIVE LStrip(_)
LStrip(s) ==
    IF s = <<>> THEN s
    ELSE IF Head(s) \in Whitespace THEN LStrip(Tail(s)) ELSE s

RECURSIVE RStrip(_)
RStrip(s) ==
    IF s = <<>> THEN s
    ELSE IF s[Len(s)] \in Whitespace
         THEN RStrip(SubSeq(s, 1, Len(s) - 1))
         ELSE s

Strip(s) == RStrip(LStrip(s))

\* "".join(xs)
RECURSIVE JoinBare(_)
JoinBare(xs) == IF xs = <<>> THEN <<>> ELSE xs[1] \o JoinBare(Tail(xs))

----------------------------------------------------------------------------
(* The upstream API: what a GET of one page can produce *)

BAD_REQUEST == 400
NO_CONTENT == 204

Header == <<"h">>

\* CSV bodies: the header row, then data rows, with or without a final newline;
\* the first two carry the header only
CsvBodies ==
    { <<"h">>,
      <<"h", "\n">>,
      <<"h", "\n", "a">>,
      <<"h", "\n", "b", "\n", "a", "\n">> }

\* record lists of a JSON page: empty, one record, two records the second of
\* which the other page repeats
JsonDatas == { <<>>, <<"r1">>, <<"r2", "r1">> }

\* pagination.next of a JSON body: null, a link, falsy values, or missing
NextValues == {"null", "str:p", "str:", "num:0", "bool:false", "absent"}

NoJson == [valid |-> FALSE, hasData |-> FALSE, data |-> <<>>, next |-> "absent"]

JsonBodies ==
    {[valid |-> TRUE, hasData |-> TRUE, data |-> d, next |-> n] :
        d \in JsonDatas, n \in NextValues}
    \cup {[valid |-> TRUE, hasData |-> FALSE, data |-> <<>>, next |-> "null"]}

Http(status, text, json) ==
    [kind |-> "http", status |-> status, text |-> text, json |-> json]

TransportFailure ==
    [kind |-> "transport", status |-> 0, text |-> <<>>, json |-> NoJson]

NoResponse ==
    [kind |-> "none", status |-> 0, text |-> <<>>, json |-> NoJson]

\* every answer the endpoint can give to one request of a fetch
Upstream(csv) ==
    {TransportFailure}
    \cup {Http(s, <<"e">>, NoJson) : s \in {400, 500}}
    \cup {Http(NO_CONTENT, t, NoJson) : t \in {<<>>, <<"x">>}}
    \cup (IF csv
          THEN {Http(200, b, NoJson) : b \in CsvBodies}
          ELSE {Http(200, <<"j">>, j) : j \in JsonBodies \cup {NoJson}})

----------------------------------------------------------------------------
(* get_paginated_dataset, piece by piece *)

\* requests.get raising (connection error, timeout=10)
GetRaises(r) == r.kind = "transport"

\* (mutation: only server errors are taken as failures)
IsServerError(r) == r.status >= 500

\* response.status_code >= HTTPStatus.BAD_REQUEST
IsBadStatus(r) == r.status >= BAD_REQUEST

\* (mutation: the wrong status constant, 205 RESET_CONTENT)
IsResetContent(r) == r.status = 205

\* response.status_code == HTTPStatus.NO_CONTENT
IsNoContent(r) == r.status = NO_CONTENT

\* the header is removed where the page number is greater than 1
RemoveHeader(page, csv_content) ==
    IF page > 1
    THEN LET data_lines == Tail(Split(csv_content, NL))
         IN  Join(NL, data_lines)
    ELSE csv_content

\* data.append(csv_content.strip())
AppendCsv(d, page, csv_content) == Append(d, Strip(RemoveHeader(page, csv_content)))

\* (mutation: records already present are not added again)
ExtendNoDuplicates(d, page_data) ==
    d \o SelectSeq(page_data, LAMBDA x : \A i \in 1..Len(d) : d[i] # x)

\* data.extend(page_data)
Extend(d, page_data) == d \o page_data

\* (mutation: `not next` in place of `next is None`)
NextIsFalsy(current_data) ==
    current_data.next \in {"null", "str:", "num:0", "bool:false"}

\* (mutation: an empty link is taken for the end as well)
NextIsNoneOrEmpty(current_data) == current_data.next \in {"null", "str:"}

\* current_data["pagination"]["next"] is None
NextIsNone(current_data) == current_data.next = "null"

\* (mutation: the page number advances by two)
SkipPage(page) == page + 2

\* page_number += 1
NextPageNumber(page) == page + 1

\* (mutation: the CSV pages are joined without the newline between them)
ReturnJoinedBare(csv, d) == IF csv THEN JoinBare(d) ELSE d

\* return data  /  return str.join("\n", data)
ReturnValue(csv, d) == IF csv THEN Join(NL, d) ELSE d

NoOutcome == [kind |-> "none", value |-> <<>>, type |-> "", msg |-> <<>>]
Dataset(v) == [kind |-> "dataset", value |-> v, type |-> "", msg |-> <<>>]
Raised(type, msg) == [kind |-> "error", value |-> <<>>, type |-> type, msg |-> msg]

InitFetch(F) ==
    /\ as_csv \in [F -> BOOLEAN]
    /\ page_number = [f \in F |-> 1]
    /\ data = [f \in F |-> <<>>]
    /\ response = [f \in F |-> NoResponse]
    /\ pc = [f \in F |-> "loop"]
    /\ outcome = [f \in F |-> NoOutcome]
    /\ requests = [f \in F |-> <<>>]
    /\ outstanding = [f \in F |-> 0]
    /\ accepted = [f \in F |-> <<>>]

\* (mutation: the next page is requested while a request is outstanding)
SendRequestEarly(f) ==
    /\ pc[f] \in {"loop", "get"}
    /\ outstanding[f] < 2
    /\ page_number[f] + outstanding[f] <= MaxPage
    /\ \E r \in Upstream(as_csv[f]) : response' = [response EXCEPT ![f] = r]
    /\ requests' = [requests EXCEPT ![f] = Append(@, page_number[f] + outstanding[f])]
    /\ outstanding' = [outstanding EXCEPT ![f] = @ + 1]
    /\ pc' = [pc EXCEPT ![f] = "get"]
    /\ UNCHANGED <<as_csv, page_number, data, outcome, accepted>>

\* top of the loop: api_params["page"] = page_number; get(endpoint, ...)
SendRequest(f) ==
    /\ pc[f] = "loop"
    /\ page_number[f] <= MaxPage
    /\ \E r \in Upstream(as_csv[f]) : response' = [response EXCEPT ![f] = r]
    /\ requests' = [requests EXCEPT ![f] = Append(@, page_number[f])]
    /\ outstanding' = [outstanding EXCEPT ![f] = @ + 1]
    /\ pc' = [pc EXCEPT ![f] = "get"]
    /\ UNCHANGED <<as_csv, page_number, data, outcome, accepted>>

\* the exception leaves the function: the locals are gone, nothing is returned
Raise(f, type, msg) ==
    /\ pc' = [pc EXCEPT ![f] = "raised"]
    /\ outcome' = [outcome EXCEPT ![f] = Raised(type, msg)]

Return(f, d) ==
    /\ pc' = [pc EXCEPT ![f] = "returned"]
    /\ outcome' = [outcome EXCEPT ![f] = Dataset(ReturnValue(as_csv[f], d))]

\* (mutation: the page cursor is one variable shared by the invocations)
ContinueSharedCursor(f) ==
    /\ pc' = [pc EXCEPT ![f] = "loop"]
    /\ page_number' = [g \in DOMAIN page_number |-> NextPageNumber(page_number[g])]
    /\ UNCHANGED outcome

Continue(f) ==
    /\ pc' = [pc EXCEPT ![f] = "loop"]
    /\ page_number' = [page_number EXCEPT ![f] = NextPageNumber(@)]
    /\ UNCHANGED outcome

\* get() raises: connection failure or timeout
TransportError(f) ==
    /\ pc[f] = "get"
    /\ GetRaises(response[f])
    /\ outstanding' = [outstanding EXCEPT ![f] = @ - 1]
    /\ Raise(f, "TransportError", <<>>)
    /\ UNCHANGED <<as_csv, page_number, data, response, requests, accepted>>

\* raise RuntimeError(f'Request failed: {response.text}')
BadStatus(f) ==
    /\ pc[f] = "get"
    /\ ~GetRaises(response[f])
    /\ IsBadStatus(response[f])
    /\ outstanding' = [outstanding EXCEPT ![f] = @ - 1]
    /\ Raise(f, "RuntimeError", <<"Request failed: ">> \o response[f].text)
    /\ UNCHANGED <<as_csv, page_number, data, response, requests, accepted>>

\* elif NO_CONTENT: break, then the return after the loop
NoContent(f) ==
    /\ pc[f] = "get"
    /\ ~GetRaises(response[f])
    /\ ~IsBadStatus(response[f])
    /\ IsNoContent(response[f])
    /\ outstanding' = [outstanding EXCEPT ![f] = @ - 1]
    /\ Return(f, data[f])
    /\ UNCHANGED <<as_csv, page_number, data, response, requests, accepted>>

\* (mutation: the accumulator is one list shared by the raw-text invocations)
CsvPageSharedData(f) ==
    /\ pc[f] = "get"
    /\ ~GetRaises(response[f])
    /\ ~IsBadStatus(response[f])
    /\ ~IsNoContent(response[f])
    /\ as_csv[f]
    /\ outstanding' = [outstanding EXCEPT ![f] = @ - 1]
    /\ data' = [g \in DOMAIN data |->
                    IF as_csv[g]
                    THEN AppendCsv(data[g], page_number[f], response[f].text)
                    ELSE data[g]]
    /\ accepted' = [accepted EXCEPT ![f] = Append(@, response[f].text)]
    /\ Continue(f)
    /\ UNCHANGED <<as_csv, response, requests>>

\* if as_csv: decode, strip the header, append, page_number += 1, continue
CsvPage(f) ==
    /\ pc[f] = "get"
    /\ ~GetRaises(response[f])
    /\ ~IsBadStatus(response[f])
    /\ ~IsNoContent(response[f])
    /\ as_csv[f]
    /\ outstanding' = [outstanding EXCEPT ![f] = @ - 1]
    /\ data' = [data EXCEPT ![f] = AppendCsv(@, page_number[f], response[f].text)]
    /\ accepted' = [accepted EXCEPT ![f] = Append(@, response[f].text)]
    /\ Continue(f)
    /\ UNCHANGED <<as_csv, response, requests>>

\* response.json(), current_data['data'], data.extend, the "next" test
JsonPage(f) ==
    /\ pc[f] = "get"
    /\ ~GetRaises(response[f])
    /\ ~IsBadStatus(response[f])
    /\ ~IsNoContent(response[f])
    /\ ~as_csv[f]
    /\ outstanding' = [outstanding EXCEPT ![f] = @ - 1]
    /\ LET current_data == response[f].json IN
       IF ~current_data.valid
       THEN /\ Raise(f, "JSONDecodeError", <<>>)
            /\ UNCHANGED <<page_number, data, accepted>>
       ELSE IF ~current_data.hasData
       THEN /\ Raise(f, "KeyError", <<"data">>)
            /\ UNCHANGED <<page_number, data, accepted>>
       ELSE LET extended == Extend(data[f], current_data.data) IN
            /\ data' = [data EXCEPT ![f] = extended]
            /\ IF current_data.next = "absent"
               THEN /\ Raise(f, "KeyError", <<"next">>)
                    /\ UNCHANGED <<page_number, accepted>>
               ELSE /\ accepted' = [accepted EXCEPT ![f] = Append(@, current_data.data)]
                    /\ IF NextIsNone(current_data)
                       THEN /\ Return(f, extended)
                            /\ UNCHANGED page_number
                       ELSE Continue(f)
    /\ UNCHANGED <<as_csv, response, requests>>

InitCacheIdle ==
    /\ cache = << >>
    /\ rpc = << >>
    /\ rcases = << >>
    /\ rdeaths = << >>
    /\ seen = << >>
    /\ now = 0
    /\ expires = << >>
    /\ got_none = << >>

\* no figure is being drawn
InitFigIdle ==
    /\ rows = << >>
    /\ total = << >>
    /\ total_rolling = << >>
    /\ figpc = "idle"

----------------------------------------------------------------------------
(* The dashboard: set_cache, update_data and the figure callbacks.         *)
(* A cached value is named by the set_cache invocation that fetched it;    *)
(* 0 is the invocation at import time, before the server answers anyone;   *)
(* -1 in a local of set_cache says that it is not assigned yet.            *)

Keys == {"cases", "deaths"}
Refreshes == 1..MaxRefresh

\* 'CACHE_DEFAULT_TIMEOUT': 300 (seconds)
CACHE_DEFAULT_TIMEOUT == 300

\* dcc.Interval(interval=60*1000) in milliseconds: 60 seconds
INTERVAL == 60

\* SimpleCache.get: an entry is returned while its expiry time is ahead
Expired(k) == expires[k] <= now

\* app.py runs set_cache() while the module is imported
InitCache ==
    /\ cache = [k \in Keys |-> 0]
    /\ rpc = [r \in Refreshes |-> "idle"]
    /\ rcases = [r \in Refreshes |-> -1]
    /\ rdeaths = [r \in Refreshes |-> -1]
    /\ seen = [k \in Keys |-> 0]
    /\ now = 0
    /\ expires = [k \in Keys |-> CACHE_DEFAULT_TIMEOUT]
    /\ got_none = [k \in Keys |-> FALSE]

\* time passes, whether or not a client is connected
Tick ==
    /\ now < MaxTicks * INTERVAL
    /\ now' = now + INTERVAL
    /\ UNCHANGED <<cache, rpc, rcases, rdeaths, seen, expires, got_none>>

\* the interval component of a connected client fires: update_data(n) enters
\* set_cache()
update_data(r) ==
    /\ rpc[r] = "idle"
    /\ rpc' = [rpc EXCEPT ![r] = "get_cases"]
    /\ UNCHANGED <<cache, rcases, rdeaths, seen, clockVars>>

\* (mutation: the Dataset is cached as soon as it is fetched)
get_cases_and_set(r) ==
    /\ rpc[r] = "get_cases"
    /\ \/ /\ rcases' = [rcases EXCEPT ![r] = r]
          /\ cache' = [cache EXCEPT !["cases"] = r]
          /\ expires' = [expires EXCEPT !["cases"] = now + CACHE_DEFAULT_TIMEOUT]
          /\ rpc' = [rpc EXCEPT ![r] = "get_deaths"]
       \/ /\ rpc' = [rpc EXCEPT ![r] = "failed"]
          /\ UNCHANGED <<rcases, cache, expires>>
    /\ UNCHANGED <<rdeaths, seen, now, got_none>>

\* cases = get_cases(): the fetch returns a Dataset or raises
get_cases(r) ==
    /\ rpc[r] = "get_cases"
    /\ \/ /\ rcases' = [rcases EXCEPT ![r] = r]
          /\ rpc' = [rpc EXCEPT ![r] = "get_deaths"]
       \/ /\ rpc' = [rpc EXCEPT ![r] = "failed"]
          /\ UNCHANGED rcases
    /\ UNCHANGED <<cache, rdeaths, seen, clockVars>>

\* deaths = get_deaths()
get_deaths(r) ==
    /\ rpc[r] = "get_deaths"
    /\ \/ /\ rdeaths' = [rdeaths EXCEPT ![r] = r]
          /\ rpc' = [rpc EXCEPT ![r] = "set_cases"]
       \/ /\ rpc' = [rpc EXCEPT ![r] = "failed"]
          /\ UNCHANGED rdeaths
    /\ UNCHANGED <<cache, rcases, seen, clockVars>>

\* cache.set('cases', cases)
set_cases(r) ==
    /\ rpc[r] = "set_cases"
    /\ cache' = [cache EXCEPT !["cases"] = rcases[r]]
    /\ expires' = [expires EXCEPT !["cases"] = now + CACHE_DEFAULT_TIMEOUT]
    /\ rpc' = [rpc EXCEPT ![r] = "set_deaths"]
    /\ UNCHANGED <<rcases, rdeaths, seen, now, got_none>>

\* cache.set('deaths', deaths); return cases, deaths
set_deaths(r) ==
    /\ rpc[r] = "set_deaths"
    /\ cache' = [cache EXCEPT !["deaths"] = rdeaths[r]]
    /\ expires' = [expires EXCEPT !["deaths"] = now + CACHE_DEFAULT_TIMEOUT]
    /\ rpc' = [rpc EXCEPT ![r] = "done"]
    /\ UNCHANGED <<rcases, rdeaths, seen, now, got_none>>

\* cache.get(k) of a figure callback; on None the callback fails at
\* cases.index.max() (AttributeError)
CacheGet(k) ==
    /\ IF Expired(k)
       THEN got_none' = [got_none EXCEPT ![k] = TRUE] /\ UNCHANGED seen
       ELSE seen' = [seen EXCEPT ![k] = cache[k]] /\ UNCHANGED got_none
    /\ UNCHANGED <<cache, rpc, rcases, rdeaths, now, expires>>

\* cases = cache.get('cases')
plotly_cases == CacheGet("cases")

\* deaths = cache.get('deaths')
plotly_deaths == CacheGet("deaths")

InitDash == InitFetch({}) /\ served = << >> /\ InitCache /\ InitFigIdle

\* what the dashboard's cache steps leave alone
outsideDash == <<fetchVars, figVars, served>>

NextDash ==
    \/ \E r \in Refreshes : update_data(r) /\ UNCHANGED outsideDash
    \/ \E r \in Refreshes : get_cases(r) /\ UNCHANGED outsideDash
    \/ \E r \in Refreshes : get_deaths(r) /\ UNCHANGED outsideDash
    \/ \E r \in Refreshes : set_cases(r) /\ UNCHANGED outsideDash
    \/ \E r \in Refreshes : set_deaths(r) /\ UNCHANGED outsideDash
    \/ plotly_cases /\ UNCHANGED outsideDash
    \/ plotly_deaths /\ UNCHANGED outsideDash
    \/ Tick /\ UNCHANGED outsideDash

SpecDash == InitDash /\ [][NextDash]_vars

----------------------------------------------------------------------------

(* One fetch against an arbitrary upstream *)

Fetches == {1}

Init == InitFetch(Fetches) /\ served = << >> /\ InitCacheIdle /\ InitFigIdle

\* what a lone fetch leaves alone
outsideFetch == <<cacheVars, clockVars, figVars, served>>

Next ==
    \/ \E f \in DOMAIN pc : SendRequest(f) /\ UNCHANGED outsideFetch
    \/ \E f \in DOMAIN pc : TransportError(f) /\ UNCHANGED outsideFetch
    \/ \E f \in DOMAIN pc : BadStatus(f) /\ UNCHANGED outsideFetch
    \/ \E f \in DOMAIN pc : NoContent(f) /\ UNCHANGED outsideFetch
    \/ \E f \in DOMAIN pc : CsvPage(f) /\ UNCHANGED outsideFetch
    \/ \E f \in DOMAIN pc : JsonPage(f) /\ UNCHANGED outsideFetch

Spec == Init /\ [][Next]_vars

\* the loop is one thread of control and every get() answers or times out
SpecLive == Init /\ [][Next]_vars /\ WF_vars(Next)

----------------------------------------------------------------------------
(* Two invocations at once: get_cases and get_deaths, two overlapping      *)
(* refreshes, or the same Query fetched twice. Each has its own locals;    *)
(* served[f] is the sequence of answers the upstream gave to f.            *)

Pair == {1, 2}

\* the answers of the upstream to the two invocations: a failure of each
\* kind, the end of the pages, and two pages per mode
PairUpstream(csv) ==
    {TransportFailure, Http(500, <<"e">>, NoJson), Http(NO_CONTENT, <<>>, NoJson)}
    \cup (IF csv
          THEN {Http(200, b, NoJson) :
                    b \in {<<"h", "\n", "a">>, <<"h", "\n", "b", "\n", "a", "\n">>}}
          ELSE {Http(200, <<"j">>, [valid |-> TRUE, hasData |-> TRUE, data |-> d, next |-> n]) :
                    d \in {<<"r1">>, <<"r2", "r1">>}, n \in {"null", "str:p"}})

\* the upstream answers the request of f
Serve(f) ==
    /\ Len(served[f]) <= MaxPairPage
    /\ response'[f] \in PairUpstream(as_csv[f])
    /\ served' = [served EXCEPT ![f] = Append(@, response'[f])]

InitPair ==
    /\ InitFetch(Pair)
    /\ served = [f \in Pair |-> <<>>]
    /\ InitCacheIdle /\ InitFigIdle

outsidePair == <<cacheVars, clockVars, figVars>>

NextPair ==
    \/ \E f \in DOMAIN pc : SendRequest(f) /\ Serve(f) /\ UNCHANGED outsidePair
    \/ \E f \in DOMAIN pc : TransportError(f) /\ UNCHANGED <<outsidePair, served>>
    \/ \E f \in DOMAIN pc : BadStatus(f) /\ UNCHANGED <<outsidePair, served>>
    \/ \E f \in DOMAIN pc : NoContent(f) /\ UNCHANGED <<outsidePair, served>>
    \/ \E f \in DOMAIN pc : CsvPage(f) /\ UNCHANGED <<outsidePair, served>>
    \/ \E f \in DOMAIN pc : JsonPage(f) /\ UNCHANGED <<outsidePair, served>>

SpecPair == InitPair /\ [][NextPair]_vars

\* get_paginated_dataset run on its own, from its first line to its last,
\* against the answers resp[1], resp[2], ...: its outcome and the number of
\* requests it issued
RECURSIVE RunLoop(_, _, _, _)
RunLoop(csv, resp, page, d) ==
    IF page > Len(resp)
    THEN [outcome |-> NoOutcome, issued |-> Len(resp)]
    ELSE LET r == resp[page] IN
         IF GetRaises(r)
         THEN [outcome |-> Raised("TransportError", <<>>), issued |-> page]
         ELSE IF IsBadStatus(r)
         THEN [outcome |-> Raised("RuntimeError", <<"Request failed: ">> \o r.text),
               issued |-> page]
         ELSE IF IsNoContent(r)
         THEN [outcome |-> Dataset(ReturnValue(csv, d)), issued |-> page]
         ELSE IF csv
         THEN RunLoop(csv, resp, NextPageNumber(page), AppendCsv(d, page, r.text))
         ELSE IF ~r.json.valid
         THEN [outcome |-> Raised("JSONDecodeError", <<>>), issued |-> page]
         ELSE IF ~r.json.hasData
         THEN [outcome |-> Raised("KeyError", <<"data">>), issued |-> page]
         ELSE IF r.json.next = "absent"
         THEN [outcome |-> Raised("KeyError", <<"next">>), issued |-> page]
         ELSE IF NextIsNone(r.json)
         THEN [outcome |-> Dataset(ReturnValue(csv, Extend(d, r.json.data))),
               issued |-> page]
         ELSE RunLoop(csv, resp, NextPageNumber(page), Extend(d, r.json.data))

get_paginated_dataset(csv, resp) == RunLoop(csv, resp, 1, <<>>)

----------------------------------------------------------------------------
(* The figure of one area: plotly_cases and plotly_deaths filter the rows  *)
(* of the area, sum them per day and take the 7-day rolling mean. rows[d]  *)
(* holds the rows of the frame dated day d. A mean is kept as the exact    *)
(* quotient num/den; NaN is the value of a day that has none.              *)

WINDOW == 7

Areas == {"London", "Wales"}

Row(n, v) == [name |-> n, daily |-> v]

\* what the frame holds for one day: nothing, one row of the area, or rows
\* of two areas with two of the one
DayRows ==
    {<<>>,
     <<Row("London", 10)>>,
     <<Row("London", 10), Row("Wales", 3), Row("London", 4)>>}

NaN == [valid |-> FALSE, num |-> 0, den |-> 1]
Quotient(n, d) == [valid |-> TRUE, num |-> n, den |-> d]

\* cases[cases['name'] == area_name]['daily'] of one day, summed
RECURSIVE DaySum(_, _)
DaySum(rs, area) ==
    IF rs = <<>> THEN 0
    ELSE (IF Head(rs).name = area THEN Head(rs).daily ELSE 0) + DaySum(Tail(rs), area)

HasRow(rs, area) == \E i \in 1..Len(rs) : rs[i].name = area

\* .resample('d').sum(): one bin per calendar day from the first to the
\* last day that has a row of the area, an empty bin summing to 0
ResampleSum(rw, area) ==
    LET days == {d \in 1..Len(rw) : HasRow(rw[d], area)} IN
    IF days = {} THEN <<>>
    ELSE LET first == CHOOSE d \in days : \A e \in days : d <= e
             last == CHOOSE d \in days : \A e \in days : e <= d
         IN [i \in 1..(last - first + 1) |-> DaySum(rw[first + i - 1], area)]

\* the sliding window of rolling(...).mean(): add the entering value, drop
\* the one that leaves, and give sum/nobs once nobs reaches min_periods
RECURSIVE RollMean(_, _, _, _, _, _)
RollMean(series, window, min_periods, i, sum_x, nobs) ==
    IF i > Len(series) THEN <<>>
    ELSE LET leaving == i > window
             s == sum_x + series[i] - (IF leaving THEN series[i - window] ELSE 0)
             n == IF leaving THEN nobs ELSE nobs + 1
         IN <<IF n >= min_periods THEN Quotient(s, n) ELSE NaN>>
            \o RollMean(series, window, min_periods, i + 1, s, n)

\* (mutation: rolling(window=7, min_periods=1))
RollingPartialWindows(series) == RollMean(series, WINDOW, 1, 1, 0, 0)

\* .rolling(window=7).mean(): min_periods defaults to the window
Rolling(series) == RollMean(series, WINDOW, WINDOW, 1, 0, 0)

\* total_cases = cases[cases['name'] == area_name]['daily'].resample('d').sum()
resample(area) ==
    /\ figpc = "start"
    /\ total' = ResampleSum(rows, area)
    /\ figpc' = "summed"
    /\ UNCHANGED <<rows, total_rolling>>

\* total_cases_rolling = total_cases.rolling(window=7).mean()
rolling ==
    /\ figpc = "summed"
    /\ total_rolling' = Rolling(total)
    /\ figpc' = "rolled"
    /\ UNCHANGED <<rows, total>>

InitFigure ==
    /\ InitFetch({}) /\ served = << >> /\ InitCacheIdle
    /\ rows \in [1..MaxDays -> DayRows]
    /\ total = << >> /\ total_rolling = << >>
    /\ figpc = "start"

outsideFigure == <<fetchVars, cacheVars, clockVars, served>>

NextFigure ==
    \/ resample("London") /\ UNCHANGED outsideFigure
    \/ rolling /\ UNCHANGED outsideFigure

SpecFigure == InitFigure /\ [][NextFigure]_vars

----------------------------------------------------------------------------
(* Vocabulary of the properties *)

Done == {"returned", "raised"}

\* the lines of a text; a final newline ends the last line, it starts no new one
LinesOf(text) ==
    LET segs == Split(text, NL)
    IN  IF segs[Len(segs)] = <<>> THEN SubSeq(segs, 1, Len(segs) - 1) ELSE segs

\* the data lines of a CSV page: its lines after the header
DataLines(body) == Tail(LinesOf(body))

RECURSIVE Flatten(_)
Flatten(pages) ==
    IF pages = <<>> THEN <<>>
    ELSE Flatten(SubSeq(pages, 1, Len(pages) - 1)) \o pages[Len(pages)]

\* status >= 400, or the request itself failed
Failing(r) == r.kind = "transport" \/ (r.kind = "http" /\ r.status >= 400)

\* a 200 JSON page that has its data and its pagination.next
WellFormed(r) ==
    /\ r.kind = "http" /\ r.status < 400 /\ r.status # 204
    /\ r.json.valid /\ r.json.hasData /\ r.json.next # "absent"

\* a page after which more pages remain
MorePages(csv, r) ==
    IF csv THEN r.kind = "http" /\ r.status < 400 /\ r.status # 204
           ELSE WellFormed(r) /\ r.json.next # "null"

----------------------------------------------------------------------------
(* C1: raw-text merge. The returned text is the header line followed by    *)
(* the data lines of every accepted page in page order, pages that carry   *)
(* only the header included; nothing is added, dropped or reordered.       *)

C1_RawTextMerge ==
    \A f \in DOMAIN pc :
        (pc[f] = "returned" /\ as_csv[f] /\ accepted[f] # <<>>) =>
            LinesOf(outcome[f].value) =
                <<Header>> \o Flatten([i \in 1..Len(accepted[f]) |-> DataLines(accepted[f][i])])

(* C2: structured merge. The returned list is the concatenation of the     *)
(* accepted pages' record lists in page order, duplicates kept.            *)

C2_StructuredMerge ==
    \A f \in DOMAIN pc :
        (pc[f] = "returned" /\ ~as_csv[f]) => outcome[f].value = Flatten(accepted[f])

C2_Witness ==
    \E f \in DOMAIN pc :
        /\ pc[f] = "returned" /\ ~as_csv[f]
        /\ accepted[f] = << <<"r2", "r1">>, <<"r1">> >>
        /\ outcome[f].value = <<"r2", "r1", "r1">>

(* C3: the page parameters of the requests issued are 1, 2, ..., N in that *)
(* order: no page number is skipped or requested twice.                    *)

C3_PageNumbers ==
    \A f \in DOMAIN pc :
        \A i \in 1..Len(requests[f]) : requests[f][i] = i

C3_Witness ==
    \E f \in DOMAIN pc : requests[f] = <<1, 2, 3>> /\ pc[f] \in Done

(* C4: a failing page (status >= 400, transport failure or timeout) ends   *)
(* the fetch in an error; the failing request is the last one issued and   *)
(* the caller gets no Dataset, whatever was accepted before.               *)

C4_FailureAborts ==
    /\ [](\A f \in Fetches :
            (pc[f] # "get" /\ Failing(response[f])) =>
                /\ pc[f] = "raised"
                /\ outcome[f].kind = "error" /\ outcome[f].value = <<>>
                /\ Len(requests[f]) = page_number[f]
                /\ requests[f][Len(requests[f])] = page_number[f])
    /\ [][\A f \in Fetches :
            pc[f] = "raised" =>
                /\ pc'[f] = "raised"
                /\ requests'[f] = requests[f]
                /\ outcome'[f] = outcome[f]]_vars

C4_Witness ==
    \E f \in DOMAIN pc :
        /\ pc[f] = "raised" /\ response[f].status = 500
        /\ page_number[f] = 2 /\ Len(accepted[f]) = 1 /\ data[f] # <<>>
        /\ outcome[f].kind = "error"

(* C5: a fetch returns normally only right after a 204 response or, in     *)
(* structured mode, right after a page whose "next" is null; in raw-text   *)
(* mode a 204 is the only normal exit. After any other page that was       *)
(* processed without an exception the fetch goes on to the next page.      *)

C5_NormalExits ==
    /\ [](\A f \in Fetches :
            pc[f] = "returned" =>
                \/ response[f].status = 204
                \/ ~as_csv[f] /\ WellFormed(response[f]) /\ response[f].json.next = "null")
    /\ [][\A f \in Fetches :
            (pc[f] = "get" /\ MorePages(as_csv[f], response[f])) =>
                /\ pc'[f] = "loop"
                /\ page_number'[f] = page_number[f] + 1
                /\ Len(requests'[f]) = page_number[f]]_vars

C5_Witness ==
    \E f \in DOMAIN pc :
        /\ pc[f] = "returned" /\ ~as_csv[f]
        /\ response[f].status = 200 /\ response[f].json.next = "null"
        /\ Len(accepted[f]) = 3

(* C6: the loop has no page limit. While the upstream sends neither a 204, *)
(* a null "next" nor an error, the fetch does not end and its page number  *)
(* grows past every page of the model; once the upstream sends one of      *)
(* those, the fetch ends.                                                  *)

StopSignal(csv, r) == r.kind # "none" /\ ~MorePages(csv, r)

C6_Termination ==
    \A f \in Fetches :
        /\ [](~StopSignal(as_csv[f], response[f]))
              => ([](pc[f] \notin Done) /\ <>(page_number[f] > MaxPage))
        /\ <>(StopSignal(as_csv[f], response[f])) => <>(pc[f] \in Done)

C6_Witness ==
    \E f \in DOMAIN pc :
        /\ pc[f] = "loop" /\ page_number[f] = MaxPage + 1
        /\ Len(requests[f]) = MaxPage

(* C7: a 204 on page k ends the fetch without error and returns what was   *)
(* accumulated from pages 1..k-1 (empty on page 1); the 204's body adds    *)
(* nothing.                                                                *)

C7_NoContentReturns ==
    [][\A f \in Fetches :
        (pc[f] = "get" /\ response[f].kind = "http" /\ response[f].status = 204) =>
            /\ pc'[f] = "returned"
            /\ outcome'[f].kind = "dataset"
            /\ Len(accepted'[f]) = Len(requests[f]) - 1
            /\ Len(requests[f]) = 1 => outcome'[f].value = <<>>
            /\ outcome'[f].value =
                 IF as_csv[f] THEN Join(NL, data[f]) ELSE Flatten(accepted[f])]_vars

C7_Witness ==
    \E f \in DOMAIN pc :
        /\ pc[f] = "returned" /\ response[f].status = 204
        /\ response[f].text = <<"x">>
        /\ Len(requests[f]) = 3
        /\ outcome[f].value # <<>>

(* C8: a refresh replaces the two cached Datasets atomically: at no moment *)
(* a figure callback can run does the cache hold the 'cases' of one        *)
(* refresh with the 'deaths' of another.                                   *)

C8_AtomicRefresh == cache["cases"] = cache["deaths"]

(* C9: pages are requested one at a time: a request is issued only when    *)
(* every earlier response has been processed, so at most one request is    *)
(* outstanding.                                                            *)

C9_Sequential ==
    /\ [](\A f \in Fetches :
            /\ outstanding[f] \in {0, 1}
            /\ outstanding[f] = 1 <=> pc[f] = "get")
    /\ [][\A f \in Fetches :
            Len(requests'[f]) > Len(requests[f]) =>
                /\ outstanding[f] = 0
                /\ Len(accepted[f]) = Len(requests[f])
                /\ Len(requests'[f]) = Len(requests[f]) + 1]_vars

C9_Witness ==
    \E f \in DOMAIN pc :
        pc[f] = "get" /\ outstanding[f] = 1 /\ Len(requests[f]) = 3 /\ Len(accepted[f]) = 2

(* C10: in structured mode a page whose pagination has no "next" ends the  *)
(* fetch like a null "next": its records are appended and the accumulated  *)
(* list is returned.                                                       *)

C10_AbsentNextStops ==
    \A f \in DOMAIN pc :
        (/\ pc[f] # "get" /\ ~as_csv[f]
         /\ response[f].kind = "http" /\ response[f].status = 200
         /\ response[f].json.valid /\ response[f].json.hasData
         /\ response[f].json.next = "absent") =>
            /\ pc[f] = "returned"
            /\ outcome[f].value = Flatten(accepted[f]) \o response[f].json.data

(* C11: in a completed fetch the number of requests issued equals the      *)
(* number of pages accepted into the Dataset, whether a 204 or a null      *)
(* "next" ended the fetch.                                                 *)

C11_RequestsEqualPages ==
    \A f \in DOMAIN pc :
        pc[f] = "returned" => Len(requests[f]) = Len(accepted[f])

(* C11 as amended: the requests are as many as the accepted pages when a   *)
(* null "next" ended the fetch, and one more when a 204 ended it: the      *)
(* request that the 204 answers is a request too.                          *)

C11_RequestCount ==
    \A f \in DOMAIN pc :
        pc[f] = "returned" =>
            Len(requests[f]) =
                Len(accepted[f]) + (IF response[f].status = 204 THEN 1 ELSE 0)

C11_Witness ==
    \E f \in DOMAIN pc :
        /\ pc[f] = "returned" /\ response[f].status = 204
        /\ Len(accepted[f]) = 2 /\ requests[f] = <<1, 2, 3>>

(* C13: the error of a fetch aborted by a status >= 400 carries the status *)
(* code and the response body text.                                        *)

\* xs occurs in ys as a run of consecutive elements
Occurs(xs, ys) ==
    \E i \in 0..(Len(ys) - Len(xs)) : SubSeq(ys, i + 1, i + Len(xs)) = xs

C13_ErrorCarriesStatusAndBody ==
    \A f \in DOMAIN pc :
        (pc[f] = "raised" /\ response[f].kind = "http" /\ response[f].status >= 400) =>
            /\ Occurs(response[f].text, outcome[f].msg)
            /\ Occurs(<<ToString(response[f].status)>>, outcome[f].msg)

(* C16: in structured mode a "next" that is present and falsy but not null *)
(* (empty string, 0, false) does not end the fetch: the next page is       *)
(* requested.                                                              *)

FalsyNotNull == {"str:", "num:0", "bool:false"}

C17_FailedRefreshWritesNothing ==
    /\ [](\A r \in Refreshes :
            rpc[r] \in {"get_cases", "get_deaths", "failed"} =>
                \A k \in Keys : cache[k] # r)
    /\ [][\A r \in Refreshes :
            (rpc[r] \in {"get_cases", "get_deaths"}
                /\ rpc'[r] \in {"get_cases", "get_deaths", "failed"}
                /\ \A q \in Refreshes \ {r} : rpc'[q] = rpc[q]) =>
                (cache' = cache /\ expires' = expires)]_vars

C17_Witness ==
    \E r \in Refreshes :
        /\ rpc[r] = "failed" /\ rcases[r] = r /\ rdeaths[r] = -1
        /\ cache = [k \in Keys |-> 0]
        /\ now = 2 * INTERVAL /\ expires = [k \in Keys |-> CACHE_DEFAULT_TIMEOUT]

(* C18: a figure callback that reads the cache always finds an entry that  *)
(* has not expired, for 'cases' as for 'deaths'.                           *)

C18_ReaderFindsEntry == \A k \in Keys : ~got_none[k]

(* C19: when all the refreshes that ran have completed, the cached 'cases' *)
(* and 'deaths' were written by the same set_cache invocation.             *)

C19_SameRefreshAfterAll ==
    (\A r \in Refreshes : rpc[r] \in {"idle", "done", "failed"}) =>
        cache["cases"] = cache["deaths"]

(* C12: fetches are independent. Of two invocations running at once, under *)
(* every interleaving of their requests and responses, each ends with the  *)
(* outcome, and issues the page numbers, that it has when it runs alone    *)
(* against the answers it was given.                                       *)

C12_Independent ==
    \A f \in DOMAIN pc :
        pc[f] \in Done =>
            LET alone == get_paginated_dataset(as_csv[f], served[f]) IN
            /\ outcome[f] = alone.outcome
            /\ alone.issued = Len(served[f])
            /\ requests[f] = [i \in 1..alone.issued |-> i]

C12_Witness ==
    /\ pc = [f \in Pair |-> "returned"]
    /\ as_csv[1] /\ ~as_csv[2]
    /\ outcome[1].value = <<"h", "\n", "a", "\n", "b", "\n", "a">>
    /\ outcome[2].value = <<"r2", "r1", "r1">>

(* C14: repeated fetches of one Query against an upstream that answers     *)
(* each page the same way every time return identical Datasets, whether    *)
(* they run one after the other or overlap.                                *)

\* the two invocations were given the same answer for every page both asked
SameFixture(f, g) ==
    \A i \in 1..Len(served[f]) :
        i <= Len(served[g]) => served[f][i] = served[g][i]

C14_Idempotent ==
    \A f \in DOMAIN pc : \A g \in DOMAIN pc :
        (pc[f] \in Done /\ pc[g] \in Done /\ as_csv[f] = as_csv[g] /\ SameFixture(f, g)) =>
            /\ outcome[f] = outcome[g]
            /\ requests[f] = requests[g]
            /\ served[f] = served[g]

C14_Witness ==
    /\ pc = [f \in Pair |-> "returned"]
    /\ as_csv[1] /\ as_csv[2]
    /\ served[1] = served[2] /\ Len(served[1]) = 3
    /\ outcome[1] = outcome[2]
    /\ outcome[1].value = <<"h", "\n", "a", "\n", "b", "\n", "a">>

(* C15: the 7-day rolling mean of the per-day summed series of one area    *)
(* has no value on the first 6 days; from day 7 on, its value at day d     *)
(* times 7 is the sum of the values of days d-6..d. For the series         *)
(* 10,0,0,0,0,0,0,14 that is no value on days 1-6 and 10/7 on day 7.       *)

RECURSIVE SumOfDays(_, _, _)
SumOfDays(series, from, to) ==
    IF from > to THEN 0 ELSE series[from] + SumOfDays(series, from + 1, to)

====
